---- MODULE Spec2Model ----
(***************************************************************************)
(* A model of gabrielccac/gov-scale-token:                                 *)
(*   - the Redis-backed token store of comprasnet-token/server.py          *)
(*     (value entries with a TTL plus a sorted-set index), its pop, sweep  *)
(*     and the client-side pop of comprasnet-token/consumer.py;            *)
(*   - the worker pool manager of RestTokenManager (start/stop/workers);   *)
(*   - the on-demand single-session server of token-comprasnet.py.         *)
(* Time is an integer number of seconds.                                   *)
(***************************************************************************)
EXTENDS Integers, Sequences, FiniteSets, TLC

(***************************************************************************)
(* Bounds of the model.                                                    *)
(***************************************************************************)
\* the model clock advances in steps of ClockStep seconds up to MaxTime
ClockStep == 60
MaxTime == 180
\* the adds the concurrent store model lets the workers begin
MaxAdds == 2
\* the calls of start the pool model lets pass the check
MaxStarts == 2
\* the seconds of polling that one step of stop's wait stands for
PollStep == 5
TickStep == 150
MaxClock == 450
MaxCalls == 3
MaxCount == 3
MaxBatches == 1
MaxSessions == 2
MaxPushes == 2

(***************************************************************************)
(* Program constants.                                                      *)
(***************************************************************************)
DEFAULT_TOKEN_EXPIRY == 120
CLEANUP_BUFFER == 60
SuffixLen == 10
DEFAULT_MAX_WORKERS == 3
EXECUTOR_THREADS == 3
STOP_TIMEOUT == 10
KEEPALIVE_INTERVAL == 300

token_expiry == DEFAULT_TOKEN_EXPIRY

(***************************************************************************)
(* Tokens are strings, modelled as sequences of small numbers.  Two of     *)
(* them share their last ten characters, one is shorter than ten.          *)
(***************************************************************************)
TailA == <<1, 1, 1, 1, 1, 1, 1, 1, 1, 1>>
TailB == <<1, 1, 1, 1, 1, 1, 1, 1, 1, 2>>
Tokens == { <<1>> \o TailA, <<2>> \o TailA, <<1>> \o TailB, <<3, 3>> }

\* the tokens the workers of the concurrent store model produce
WorkerTokens == { <<1>> \o TailA, <<2>> \o TailA, <<1>> \o TailB }

WorkerIds == {1, 2}

\* python's s[-n:]: the last n characters, the whole string when it is shorter
LastChars(s, n) == SubSeq(s, IF Len(s) > n THEN Len(s) - n + 1 ELSE 1, Len(s))

\* token_key = f"rest_token:{token_data['token'][-10:]}"
TokenKey(token) == [prefix |-> "rest_token:", suffix |-> LastChars(token, SuffixLen)]

Keys == { TokenKey(t) : t \in Tokens }

\* the lexicographic order of two strings (Redis orders equal scores by member)
RECURSIVE LexLess(_, _)
LexLess(a, b) ==
  IF b = <<>> THEN FALSE
  ELSE IF a = <<>> THEN TRUE
  ELSE IF Head(a) # Head(b) THEN Head(a) < Head(b)
  ELSE LexLess(Tail(a), Tail(b))

KeyLess(j, k) == LexLess(j.suffix, k.suffix)

(***************************************************************************)
(* The external store.  kv maps each existing key to its value and the     *)
(* time at which it expires; idx is the sorted set, member -> score.       *)
(***************************************************************************)
VARIABLES now, kv, idx

storeVars == <<now, kv, idx>>

\* GET: nil for a key that does not exist or has expired
Live(store, key, t) == key \in DOMAIN store /\ store[key].exp > t

\* the reply of a GET that finds nothing (python's None)
Nil == [token |-> <<>>, timestamp |-> -1, worker_id |-> 0]

RedisGet(store, key, t) == IF Live(store, key, t) THEN store[key].data ELSE Nil

\* SETEX key ttl value
RedisSetex(store, key, ttl, data, t) ==
  [k \in DOMAIN store \cup {key} |->
     IF k = key THEN [data |-> data, exp |-> t + ttl] ELSE store[k]]

\* DEL key
RedisDel(store, key) == [k \in DOMAIN store \ {key} |-> store[k]]

\* ZADD set {member: score}: adds the member or overwrites its score
RedisZadd(zset, member, score) ==
  [k \in DOMAIN zset \cup {member} |-> IF k = member THEN score ELSE zset[k]]

ZMaxLowest(zset) ==
  CHOOSE k \in DOMAIN zset : \A j \in DOMAIN zset : zset[k] <= zset[j]

\* the member ZPOPMAX removes: the highest score, the greatest member among equals
ZMax(zset) ==
  CHOOSE k \in DOMAIN zset :
    \A j \in DOMAIN zset \ {k} :
      zset[j] < zset[k] \/ (zset[j] = zset[k] /\ KeyLess(j, k))

ZRemove(zset, members) == [k \in DOMAIN zset \ members |-> zset[k]]

ZPopMaxKeeps(zset) == zset

\* what ZPOPMAX leaves in the set
ZPopMax(zset) == ZRemove(zset, {ZMax(zset)})

\* the range taken above max instead of up to it
ZRangeAboveScore(zset, max) == { k \in DOMAIN zset : zset[k] > max }

\* ZREMRANGEBYSCORE set -inf max: both ends are inclusive
ZRangeByScore(zset, max) == { k \in DOMAIN zset : zset[k] <= max }

ZCard(zset) == Cardinality(DOMAIN zset)

\* Redis drops a value when its TTL has elapsed
Expire(store, t) == [k \in { j \in DOMAIN store : store[j].exp > t } |-> store[k]]

Empty == [e \in {} |-> 0]

\* the clock readings the model can take
Stamps == { t \in 0..MaxTime : t % ClockStep = 0 }

(***************************************************************************)
(* RestTokenManager's store operations, each one whole call.               *)
(***************************************************************************)
get_token_count(zset) == ZCard(zset)

\* add_token: the value with its TTL first, the index entry second
add_token_value(store, token_data, t) ==
  RedisSetex(store, TokenKey(token_data.token), token_expiry, token_data, t)

add_token_index(zset, token_data) ==
  RedisZadd(zset, TokenKey(token_data.token), token_data.timestamp)

get_newest_token_peek(store, zset, t) ==
  IF DOMAIN zset = {} THEN <<Nil, store, zset>>
  ELSE LET token_key == ZMax(zset)
           token_data == RedisGet(store, token_key, t)
       IN IF token_data = Nil
          THEN <<Nil, store, zset>>
          ELSE <<token_data, RedisDel(store, token_key), ZPopMax(zset)>>

\* get_newest_token, as the triple <<returned data, kv afterwards, idx afterwards>>
get_newest_token(store, zset, t) ==
  IF DOMAIN zset = {} THEN <<Nil, store, zset>>
  ELSE LET token_key == ZMax(zset)
           token_data == RedisGet(store, token_key, t)
       IN IF token_data = Nil
          THEN <<Nil, store, ZPopMax(zset)>>
          ELSE <<token_data, RedisDel(store, token_key), ZPopMax(zset)>>

\* cleanup_stale_references: the cutoff and the members removed
expired_cutoff(t) == t - token_expiry - CLEANUP_BUFFER

cleanup_stale_references(zset, t) == ZRemove(zset, ZRangeByScore(zset, expired_cutoff(t)))

(***************************************************************************)
(* One caller using the store, call after call (the store's contract).     *)
(* last records the latest call (the clock is no call): its kind, what it  *)
(* returned, for a pop which branch it took, whether it found every index  *)
(* entry live with scores distinct, and how many pops in a row, without an *)
(* add or a sweep between them, have each returned a record.               *)
(***************************************************************************)
VARIABLES last

seqVars == <<last>>

NoCall == [op |-> "none", ret |-> Nil, branch |-> "none", clean |-> FALSE, streak |-> 0]

LiveKeys(store, zset, t) == { k \in DOMAIN zset : Live(store, k, t) }

DistinctScores(zset) == \A j, k \in DOMAIN zset : j # k => zset[j] # zset[k]

\* every index entry has its live value, and no two scores are equal
Clean(store, zset, t) == LiveKeys(store, zset, t) = DOMAIN zset /\ DistinctScores(zset)

SeqAdd(token_data) ==
  /\ kv' = add_token_value(kv, token_data, now)
  /\ idx' = add_token_index(idx, token_data)
  /\ last' = [NoCall EXCEPT !.op = "add", !.ret = token_data]
  /\ UNCHANGED now

SeqPop ==
  LET r == get_newest_token(kv, idx, now)
      clean == Clean(kv, idx, now)
  IN /\ kv' = r[2]
     /\ idx' = r[3]
     /\ last' = [op |-> "pop", ret |-> r[1],
                 branch |-> IF DOMAIN idx = {} THEN "empty"
                            ELSE IF Live(kv, ZMax(idx), now) THEN "data" ELSE "stale",
                 clean |-> clean,
                 streak |-> IF clean /\ r[1] # Nil
                            THEN (IF last.streak < Cardinality(Keys) THEN last.streak + 1
                                  ELSE last.streak)
                            ELSE IF clean /\ DOMAIN idx = {} THEN last.streak ELSE 0]
     /\ UNCHANGED now

SeqSweep ==
  /\ idx' = cleanup_stale_references(idx, now)
  /\ last' = [NoCall EXCEPT !.op = "sweep"]
  /\ UNCHANGED <<now, kv>>

\* time passes; values whose TTL has elapsed are gone
ClockTick ==
  /\ now + ClockStep <= MaxTime
  /\ now' = now + ClockStep
  /\ kv' = Expire(kv, now')
  /\ UNCHANGED idx

SeqTick == ClockTick /\ UNCHANGED last

(***************************************************************************)
(* The store under concurrency: producer workers adding (token_worker      *)
(* lines 226-236 and add_token, one Redis command per step), the server's  *)
(* GET /token handler and the consumer's threads popping, the sweep and    *)
(* the clock.                                                              *)
(*   wk[w]   where worker w is in its add and the token_data it built      *)
(*   pp[p]   where popper p is in its pop, the key it popped, the data it  *)
(*           read                                                          *)
(*   client_lock  the holder of consumer.py's lock, 0 when free            *)
(*   adds    how many adds were begun per key (history)                    *)
(*   returned  how often each token_data was returned by a pop (history)   *)
(***************************************************************************)
VARIABLES wk, pp, client_lock, adds, returned

concVars == <<wk, pp, client_lock, adds, returned>>

Consumers == {1, 2}
Server == 0
Poppers == {Server} \cup Consumers
\* the poppers that run in SpecStore: the server's handler and one consumer thread
StorePoppers == {Server, 1}

RECURSIVE SumOver(_, _)
SumOver(f, S) ==
  IF S = {} THEN 0 ELSE LET x == CHOOSE y \in S : TRUE IN f[x] + SumOver(f, S \ {x})

IdleWorker == [pc |-> "idle", data |-> Nil]
IdlePopper == [pc |-> "idle", key |-> TokenKey(<<>>), data |-> Nil]

\* token_worker line 228: the record is stamped with time.time()
WorkerStamp(w, token) ==
  /\ wk[w].pc = "idle"
  /\ SumOver(adds, Keys) < MaxAdds
  /\ wk' = [wk EXCEPT ![w] = [pc |-> "stamped",
                              data |-> [token |-> token, timestamp |-> now, worker_id |-> w]]]
  /\ adds' = [adds EXCEPT ![TokenKey(token)] = @ + 1]
  /\ UNCHANGED <<storeVars, pp, client_lock, returned>>

\* add_token line 101
WorkerSetex(w) ==
  /\ wk[w].pc = "stamped"
  /\ kv' = add_token_value(kv, wk[w].data, now)
  /\ wk' = [wk EXCEPT ![w].pc = "stored"]
  /\ UNCHANGED <<now, idx, pp, client_lock, adds, returned>>

\* add_token line 104
WorkerZadd(w) ==
  /\ wk[w].pc = "stored"
  /\ idx' = add_token_index(idx, wk[w].data)
  /\ wk' = [wk EXCEPT ![w] = IdleWorker]
  /\ UNCHANGED <<now, kv, pp, client_lock, adds, returned>>

\* consumer.py line 21: with lock
ConsumerLock(c) ==
  /\ pp[c].pc = "idle"
  /\ client_lock = 0
  /\ client_lock' = c
  /\ pp' = [pp EXCEPT ![c].pc = "locked"]
  /\ UNCHANGED <<storeVars, wk, adds, returned>>

Unlock(p) == IF p \in Consumers THEN 0 ELSE client_lock

\* zpopmax; an empty reply ends the call with None
PopZpopmax(p) ==
  /\ pp[p].pc = IF p \in Consumers THEN "locked" ELSE "idle"
  /\ IF DOMAIN idx = {}
     THEN /\ pp' = [pp EXCEPT ![p] = IdlePopper]
          /\ client_lock' = Unlock(p)
          /\ UNCHANGED idx
     ELSE /\ pp' = [pp EXCEPT ![p] = [pc |-> "popped", key |-> ZMax(idx), data |-> Nil]]
          /\ idx' = ZPopMax(idx)
          /\ UNCHANGED client_lock
  /\ UNCHANGED <<now, kv, wk, adds, returned>>

\* get(token_key); a missing value ends the call with None
PopGet(p) ==
  /\ pp[p].pc = "popped"
  /\ LET token_data == RedisGet(kv, pp[p].key, now)
     IN IF token_data = Nil
        THEN /\ pp' = [pp EXCEPT ![p] = IdlePopper]
             /\ client_lock' = Unlock(p)
        ELSE /\ pp' = [pp EXCEPT ![p].pc = "got", ![p].data = token_data]
             /\ UNCHANGED client_lock
  /\ UNCHANGED <<storeVars, wk, adds, returned>>

\* delete(token_key), then the call returns the data it read
PopDelete(p) ==
  /\ pp[p].pc = "got"
  /\ kv' = RedisDel(kv, pp[p].key)
  /\ returned' = [d \in DOMAIN returned \cup {pp[p].data} |->
                    IF d = pp[p].data
                    THEN (IF d \in DOMAIN returned THEN 2 ELSE 1)
                    ELSE returned[d]]
  /\ pp' = [pp EXCEPT ![p] = IdlePopper]
  /\ client_lock' = Unlock(p)
  /\ UNCHANGED <<now, idx, wk, adds>>

\* the cleanup thread's pass, or POST /cleanup
StoreSweep ==
  /\ idx' = cleanup_stale_references(idx, now)
  /\ UNCHANGED <<now, kv, concVars>>

StoreTick == ClockTick /\ UNCHANGED concVars

(***************************************************************************)
(* The worker pool manager (RestTokenManager, lines 48-53 and 178-262).    *)
(*   generation_active, workers_running, max_workers   the manager's       *)
(*       fields                                                            *)
(*   lists    every list of threading.Events created by line 186, in       *)
(*       order of creation: its length and whether stop has set its events *)
(*       (stop sets the events of a list together)                         *)
(*   worker_shutdown_events   the manager's current list, as an index into *)
(*       lists (0: the empty list of __init__)                             *)
(*   tasks    the token_worker calls submitted to the executor, in batches *)
(*       of one start each, in submission order: the list whose events the *)
(*       batch was given, how many of its calls wait for an executor       *)
(*       thread, how many run; a batch with none left is dropped           *)
(*   cl[c]    thread c calling the manager: the call it made last, where   *)
(*       it is in it, its result, the seconds stop has waited, the number  *)
(*       of workers a start submitted                                      *)
(*   starts, crashed   history: the starts that passed the check, whether  *)
(*       a worker has died of an error                                     *)
(* A block under self.lock is one step.                                    *)
(***************************************************************************)
VARIABLES generation_active, workers_running, max_workers, lists,
          worker_shutdown_events, tasks, cl, starts, crashed

mgrVars == <<generation_active, workers_running, max_workers, lists,
             worker_shutdown_events, tasks>>
poolVars == <<mgrVars, cl, starts, crashed>>

Callers == {1, 2}

\* the workers a POST /start asks for (0 would stand for none given)
WorkerCounts == {1, 4}

IdleCaller == [op |-> "none", arg |-> 0, pc |-> "idle", res |-> "none",
               elapsed |-> 0, spawned |-> 0]

\* len(self.worker_shutdown_events)
ListLen == IF worker_shutdown_events = 0 THEN 0 ELSE lists[worker_shutdown_events].len

\* workers or self.max_workers
WorkersOr(workers, default) == IF workers # 0 THEN workers ELSE default

\* line 179-183 without the check of generation_active
StartLockedNoCheck(c, workers) ==
  /\ cl[c].pc = "idle"
  /\ starts < MaxStarts
  /\ generation_active' = TRUE
  /\ max_workers' = WorkersOr(workers, max_workers)
  /\ starts' = starts + 1
  /\ cl' = [cl EXCEPT ![c] = [IdleCaller EXCEPT !.op = "start", !.arg = workers,
                                                !.pc = "start_events", !.res = "pending"]]
  /\ UNCHANGED <<workers_running, lists, worker_shutdown_events, tasks, crashed>>

\* start_token_generation lines 179-183: the block under the lock
StartLocked(c, workers) ==
  /\ cl[c].pc = "idle"
  /\ IF generation_active
     THEN /\ cl' = [cl EXCEPT ![c] = [IdleCaller EXCEPT !.op = "start", !.arg = workers,
                                                        !.res = "AlreadyActive"]]
          /\ UNCHANGED <<mgrVars, starts, crashed>>
     ELSE /\ starts < MaxStarts
          /\ generation_active' = TRUE
          /\ max_workers' = WorkersOr(workers, max_workers)
          /\ starts' = starts + 1
          /\ cl' = [cl EXCEPT ![c] = [IdleCaller EXCEPT !.op = "start", !.arg = workers,
                                                        !.pc = "start_events",
                                                        !.res = "pending"]]
          /\ UNCHANGED <<workers_running, lists, worker_shutdown_events, tasks, crashed>>

\* line 186: a fresh list of max_workers events replaces the manager's list
StartEvents(c) ==
  /\ cl[c].pc = "start_events"
  /\ lists' = Append(lists, [len |-> max_workers, set |-> FALSE])
  /\ worker_shutdown_events' = Len(lists) + 1
  /\ cl' = [cl EXCEPT ![c].pc = "start_submit"]
  /\ UNCHANGED <<generation_active, workers_running, max_workers, tasks, starts, crashed>>

\* lines 187-189: max_workers submits, each reading the manager's list; an index
\* past the end of the list raises IndexError out of the call
StartSubmit(c) ==
  /\ cl[c].pc = "start_submit"
  /\ LET n == IF max_workers <= ListLen THEN max_workers ELSE ListLen
     IN /\ tasks' = IF n = 0 THEN tasks
                    ELSE Append(tasks, [list |-> worker_shutdown_events, queued |-> n,
                                        running |-> 0])
        /\ cl' = [cl EXCEPT ![c].pc = "idle", ![c].spawned = n,
                            ![c].res = IF n = max_workers THEN "started" ELSE "IndexError"]
  /\ UNCHANGED <<generation_active, workers_running, max_workers, lists,
                 worker_shutdown_events, starts, crashed>>

\* line 192-195 without the check of generation_active
StopLockedNoCheck(c) ==
  /\ cl[c].pc = "idle"
  /\ generation_active' = FALSE
  /\ cl' = [cl EXCEPT ![c] = [IdleCaller EXCEPT !.op = "stop", !.pc = "stop_signal",
                                                !.res = "pending"]]
  /\ UNCHANGED <<workers_running, max_workers, lists, worker_shutdown_events, tasks,
                 starts, crashed>>

\* stop_token_generation lines 192-195: the block under the lock
StopLocked(c) ==
  /\ cl[c].pc = "idle"
  /\ IF ~generation_active
     THEN /\ cl' = [cl EXCEPT ![c] = [IdleCaller EXCEPT !.op = "stop", !.res = "NotActive"]]
          /\ UNCHANGED generation_active
     ELSE /\ generation_active' = FALSE
          /\ cl' = [cl EXCEPT ![c] = [IdleCaller EXCEPT !.op = "stop", !.pc = "stop_signal",
                                                        !.res = "pending"]]
  /\ UNCHANGED <<workers_running, max_workers, lists, worker_shutdown_events, tasks,
                 starts, crashed>>

\* lines 198-202: every event of the manager's list is set; the wait begins
StopSignal(c) ==
  /\ cl[c].pc = "stop_signal"
  /\ lists' = [g \in DOMAIN lists |->
                 IF g = worker_shutdown_events THEN [lists[g] EXCEPT !.set = TRUE]
                 ELSE lists[g]]
  /\ cl' = [cl EXCEPT ![c].pc = "stop_wait", ![c].elapsed = 0]
  /\ UNCHANGED <<generation_active, workers_running, max_workers, worker_shutdown_events,
                 tasks, starts, crashed>>

\* the wait of lines 203-204 without its timeout
StopPollNoTimeout(c) ==
  /\ cl[c].pc = "stop_wait"
  /\ IF workers_running > 0
     THEN cl' = [cl EXCEPT ![c].elapsed = IF @ < STOP_TIMEOUT THEN @ + PollStep ELSE @]
     ELSE cl' = [cl EXCEPT ![c].pc = "idle", ![c].res = "stopped", ![c].elapsed = 0]
  /\ UNCHANGED <<mgrVars, starts, crashed>>

\* lines 203-206: while workers run and the timeout has not passed, sleep (one
\* step is the polls of PollStep seconds); otherwise return success
StopPoll(c) ==
  /\ cl[c].pc = "stop_wait"
  /\ IF workers_running > 0 /\ cl[c].elapsed < STOP_TIMEOUT
     THEN cl' = [cl EXCEPT ![c].elapsed = @ + PollStep]
     ELSE cl' = [cl EXCEPT ![c].pc = "idle", ![c].res = "stopped", ![c].elapsed = 0]
  /\ UNCHANGED <<mgrVars, starts, crashed>>

RECURSIVE SumRunning(_)
SumRunning(seq) == IF seq = <<>> THEN 0 ELSE Head(seq).running + SumRunning(Tail(seq))

\* the batches with a call left
Compact(seq) == SelectSeq(seq, LAMBDA b : b.queued + b.running > 0)

\* a free executor thread takes the oldest queued call; token_worker lines 209-212
WorkerBegin(t) ==
  /\ tasks[t].queued > 0
  /\ \A u \in 1..(t - 1) : tasks[u].queued = 0
  /\ SumRunning(tasks) < EXECUTOR_THREADS
  /\ tasks' = [tasks EXCEPT ![t].queued = @ - 1, ![t].running = @ + 1]
  /\ workers_running' = workers_running + 1
  /\ UNCHANGED <<generation_active, max_workers, lists, worker_shutdown_events, cl,
                 starts, crashed>>

\* lines 215 and 223-224: the worker sees its event set and leaves the loop;
\* lines 257-262
WorkerExit(t) ==
  /\ tasks[t].running > 0
  /\ lists[tasks[t].list].set
  /\ tasks' = Compact([tasks EXCEPT ![t].running = @ - 1])
  /\ workers_running' = workers_running - 1
  /\ UNCHANGED <<generation_active, max_workers, lists, worker_shutdown_events, cl,
                 starts, crashed>>

\* an error leaves the loop (driver.quit() raising in a handler of lines 247-255);
\* lines 257-262
WorkerCrash(t) ==
  /\ tasks[t].running > 0
  /\ tasks' = Compact([tasks EXCEPT ![t].running = @ - 1])
  /\ workers_running' = workers_running - 1
  /\ crashed' = TRUE
  /\ UNCHANGED <<generation_active, max_workers, lists, worker_shutdown_events, cl, starts>>

(***************************************************************************)
(* The on-demand server (OnDemandTokenServer, src/token-comprasnet.py).    *)
(*   driver          self.driver: "none" (None), "open" (a browser         *)
(*       session), "closed" (a session after driver.quit())                *)
(*   browser_ready, last_keepalive   the server's fields                   *)
(*   lock            the thread holding self.lock (0: free)                *)
(*   clock           time.time() of the server's process                   *)
(*   th[t]           thread t: the call it made last and where it is in    *)
(*       it; the outcome of each _generate_token of the call; whether the  *)
(*       page was loaded again, whether the call ran _initialize_browser   *)
(*       and whether one failed; its result and browser_ready as the call  *)
(*       returned                                                          *)
(*   calls           history: the get_token and restart_browser calls made *)
(* Thread Main constructs the server (line 230); the others run once it    *)
(* serves.  The fields are written under the lock only, so the steps a     *)
(* thread takes under the lock without writing a field are one step.       *)
(***************************************************************************)
VARIABLES driver, browser_ready, last_keepalive, lock, clock, th, calls

odVars == <<driver, browser_ready, last_keepalive, lock, clock, th, calls>>

Main == 0
Clients == {1, 2}
KeepaliveThread == 3
RestartCaller == 4
Threads == {Main} \cup Clients \cup {KeepaliveThread, RestartCaller}

IdleThread == [op |-> "none", pc |-> "idle", attempt |-> 0, token |-> FALSE,
               outs |-> <<>>, refreshed |-> FALSE, reinitialized |-> FALSE,
               reinit_failed |-> FALSE,
               res |-> "none", ready_ret |-> FALSE]

Serving == th[Main].pc = "serving"

\* how _initialize_browser ends: the widget was found; Driver() raised; a call
\* on the new session raised
InitOutcomes == {"ready", "no_driver", "no_page"}

\* _initialize_browser: the fields it leaves, from self.driver and
\* self.last_keepalive before it and the time
initialize_browser(outcome, drv, keep, t) ==
  CASE outcome = "ready" ->
         [driver |-> "open", browser_ready |-> TRUE, last_keepalive |-> t]
    [] outcome = "no_driver" ->
         [driver |-> drv, browser_ready |-> FALSE, last_keepalive |-> keep]
    [] OTHER ->
         [driver |-> "open", browser_ready |-> FALSE, last_keepalive |-> keep]

\* __init__ line 38
Construct(outcome) ==
  /\ th[Main].pc = "construct"
  /\ LET s == initialize_browser(outcome, driver, last_keepalive, clock)
     IN /\ driver' = s.driver
        /\ browser_ready' = s.browser_ready
        /\ last_keepalive' = s.last_keepalive
  /\ th' = [th EXCEPT ![Main].pc = "serving"]
  /\ UNCHANGED <<lock, clock, calls>>

\* get_token lines 155-156: the check made before the lock is taken
GetTokenCheck(c) ==
  /\ Serving
  /\ th[c].pc = "idle"
  /\ calls < MaxCalls
  /\ calls' = calls + 1
  /\ th' = [th EXCEPT ![c] =
              IF ~browser_ready
              THEN [IdleThread EXCEPT !.op = "get_token", !.res = "Browser not ready",
                                      !.ready_ret = browser_ready]
              ELSE [IdleThread EXCEPT !.op = "get_token", !.pc = "acquire",
                                      !.res = "pending"]]
  /\ UNCHANGED <<driver, browser_ready, last_keepalive, lock, clock>>

\* the lock taken without waiting for it to be free
AcquireNoWait(t) ==
  /\ th[t].pc = "acquire"
  /\ lock' = t
  /\ th' = [th EXCEPT ![t].pc = IF th[t].op = "restart" THEN "restart_close" ELSE "generate",
                      ![t].attempt = 1]
  /\ UNCHANGED <<driver, browser_ready, last_keepalive, clock, calls>>

\* with self.lock (lines 77, 159, 182)
Acquire(t) ==
  /\ th[t].pc = "acquire"
  /\ lock = 0
  /\ lock' = t
  /\ th' = [th EXCEPT ![t].pc = IF th[t].op = "restart" THEN "restart_close" ELSE "generate",
                      ![t].attempt = 1]
  /\ UNCHANGED <<driver, browser_ready, last_keepalive, clock, calls>>

\* _generate_token lines 108-139: no solve when the session is not ready; the
\* script returns a token, returns none, or raises (a closed session raises),
\* and on a raise the session is marked not ready and closed
Solve(t, outcome) ==
  /\ th[t].pc = "generate"
  /\ lock = t
  /\ IF ~browser_ready \/ driver = "none"
     THEN /\ outcome = "none"
          /\ th' = [th EXCEPT ![t].outs = Append(@, "skipped"), ![t].token = FALSE,
                              ![t].pc = "generated"]
          /\ UNCHANGED <<driver, browser_ready>>
     ELSE /\ driver = "closed" => outcome = "raise"
          /\ IF outcome = "raise"
             THEN /\ browser_ready' = FALSE
                  /\ driver' = "closed"
                  /\ th' = [th EXCEPT ![t].outs = Append(@, "raise"), ![t].token = FALSE,
                                      ![t].pc = "reinit"]
             ELSE /\ th' = [th EXCEPT ![t].outs = Append(@, outcome),
                                      ![t].token = (outcome = "token"),
                                      ![t].pc = "generated"]
                  /\ UNCHANGED <<driver, browser_ready>>
  /\ UNCHANGED <<last_keepalive, lock, clock, calls>>

\* lines 140-142 with the reinitialization left out
ReinitializeSkipped(t, outcome) ==
  /\ th[t].pc = "reinit"
  /\ lock = t
  /\ th' = [th EXCEPT ![t].pc = "generated",
                      ![t].reinit_failed = @ \/ outcome # "ready"]
  /\ UNCHANGED <<driver, browser_ready, last_keepalive, lock, clock, calls>>

\* _generate_token lines 140-142: the session is reinitialized and no token is
\* returned
Reinitialize(t, outcome) ==
  /\ th[t].pc = "reinit"
  /\ lock = t
  /\ LET s == initialize_browser(outcome, driver, last_keepalive, clock)
     IN /\ driver' = s.driver
        /\ browser_ready' = s.browser_ready
        /\ last_keepalive' = s.last_keepalive
  /\ th' = [th EXCEPT ![t].pc = "generated", ![t].reinitialized = TRUE,
                      ![t].reinit_failed = @ \/ outcome # "ready"]
  /\ UNCHANGED <<lock, clock, calls>>

\* lines 162-178 without the update of line 172
GetTokenNextNoKeepalive(c) ==
  /\ th[c].pc = "generated"
  /\ th[c].op = "get_token"
  /\ lock = c
  /\ IF th[c].token
     THEN /\ lock' = 0
          /\ th' = [th EXCEPT ![c].pc = "idle", ![c].res = "token",
                              ![c].ready_ret = browser_ready]
     ELSE IF th[c].attempt = 1
     THEN /\ th' = [th EXCEPT ![c].pc = "generate", ![c].attempt = 2,
                              ![c].refreshed = (driver # "none")]
          /\ UNCHANGED lock
     ELSE /\ lock' = 0
          /\ th' = [th EXCEPT ![c].pc = "idle",
                              ![c].res = "Failed to generate token after retry",
                              ![c].ready_ret = browser_ready]
  /\ UNCHANGED <<driver, browser_ready, last_keepalive, clock, calls>>

\* get_token lines 162-178, after a _generate_token: with a token the keepalive
\* time is updated and the token returned; after the first attempt the page is
\* refreshed (lines 144-151: when there is a session) and a second attempt
\* made; after the second the call raises
GetTokenNext(c) ==
  /\ th[c].pc = "generated"
  /\ th[c].op = "get_token"
  /\ lock = c
  /\ IF th[c].token
     THEN /\ last_keepalive' = clock
          /\ lock' = 0
          /\ th' = [th EXCEPT ![c].pc = "idle", ![c].res = "token",
                              ![c].ready_ret = browser_ready]
     ELSE IF th[c].attempt = 1
     THEN /\ th' = [th EXCEPT ![c].pc = "generate", ![c].attempt = 2,
                              ![c].refreshed = (driver # "none")]
          /\ UNCHANGED <<last_keepalive, lock>>
     ELSE /\ lock' = 0
          /\ th' = [th EXCEPT ![c].pc = "idle",
                              ![c].res = "Failed to generate token after retry",
                              ![c].ready_ret = browser_ready]
          /\ UNCHANGED last_keepalive
  /\ UNCHANGED <<driver, browser_ready, clock, calls>>

\* keepalive_worker lines 69-77: after its sleep the loop goes on to a keepalive
\* token when the session is ready and has been idle for the interval
KeepaliveCheck ==
  /\ Serving
  /\ th[KeepaliveThread].pc = "idle"
  /\ browser_ready
  /\ clock - last_keepalive >= KEEPALIVE_INTERVAL
  /\ th' = [th EXCEPT ![KeepaliveThread] =
              [IdleThread EXCEPT !.op = "keepalive", !.pc = "acquire", !.res = "pending"]]
  /\ UNCHANGED <<driver, browser_ready, last_keepalive, lock, clock, calls>>

\* lines 80-97 with the handler of lines 87-98 left out: an error of the page
\* load is only logged
KeepaliveNextNoRestart(outcome) ==
  /\ th[KeepaliveThread].pc = "generated"
  /\ th[KeepaliveThread].op = "keepalive"
  /\ lock = KeepaliveThread
  /\ th[KeepaliveThread].token => outcome = "ok"
  /\ (~th[KeepaliveThread].token /\ driver # "open") => outcome = "raise"
  /\ last_keepalive' = IF th[KeepaliveThread].token THEN clock ELSE last_keepalive
  /\ lock' = 0
  /\ th' = [th EXCEPT ![KeepaliveThread].pc = "idle",
                      ![KeepaliveThread].res =
                         IF th[KeepaliveThread].token THEN "token"
                         ELSE IF outcome = "ok" THEN "refreshed" ELSE "restarted",
                      ![KeepaliveThread].refreshed = ~th[KeepaliveThread].token /\ outcome = "ok"]
  /\ UNCHANGED <<driver, browser_ready, clock, calls>>

\* keepalive_worker lines 80-97: with a token the keepalive time is updated;
\* without one the page is loaded again, and if that raises (as it does without
\* an open session) the session is marked not ready and closed
KeepaliveNext(outcome) ==
  /\ th[KeepaliveThread].pc = "generated"
  /\ th[KeepaliveThread].op = "keepalive"
  /\ lock = KeepaliveThread
  /\ IF th[KeepaliveThread].token
     THEN /\ outcome = "ok"
          /\ last_keepalive' = clock
          /\ lock' = 0
          /\ th' = [th EXCEPT ![KeepaliveThread].pc = "idle",
                              ![KeepaliveThread].res = "token"]
          /\ UNCHANGED <<driver, browser_ready>>
     ELSE /\ driver # "open" => outcome = "raise"
          /\ IF outcome = "ok"
             THEN /\ lock' = 0
                  /\ th' = [th EXCEPT ![KeepaliveThread].pc = "idle",
                                      ![KeepaliveThread].res = "refreshed",
                                      ![KeepaliveThread].refreshed = TRUE]
                  /\ UNCHANGED <<driver, browser_ready>>
             ELSE /\ browser_ready' = FALSE
                  /\ driver' = IF driver = "none" THEN "none" ELSE "closed"
                  /\ th' = [th EXCEPT ![KeepaliveThread].pc = "keepalive_restart"]
                  /\ UNCHANGED lock
          /\ UNCHANGED last_keepalive
  /\ UNCHANGED <<clock, calls>>

\* keepalive_worker line 98, and the lock released
KeepaliveRestart(outcome) ==
  /\ th[KeepaliveThread].pc = "keepalive_restart"
  /\ lock = KeepaliveThread
  /\ LET s == initialize_browser(outcome, driver, last_keepalive, clock)
     IN /\ driver' = s.driver
        /\ browser_ready' = s.browser_ready
        /\ last_keepalive' = s.last_keepalive
  /\ lock' = 0
  /\ th' = [th EXCEPT ![KeepaliveThread].pc = "idle",
                      ![KeepaliveThread].res = "restarted",
                      ![KeepaliveThread].reinitialized = TRUE,
                      ![KeepaliveThread].reinit_failed = @ \/ outcome # "ready"]
  /\ UNCHANGED <<clock, calls>>

\* restart_browser is called (line 257)
RestartCall ==
  /\ Serving
  /\ th[RestartCaller].pc = "idle"
  /\ calls < MaxCalls
  /\ calls' = calls + 1
  /\ th' = [th EXCEPT ![RestartCaller] =
              [IdleThread EXCEPT !.op = "restart", !.pc = "acquire", !.res = "pending"]]
  /\ UNCHANGED <<driver, browser_ready, last_keepalive, lock, clock>>

\* restart_browser lines 186-193
RestartClose ==
  /\ th[RestartCaller].pc = "restart_close"
  /\ lock = RestartCaller
  /\ browser_ready' = FALSE
  /\ driver' = "none"
  /\ th' = [th EXCEPT ![RestartCaller].pc = "restart_init"]
  /\ UNCHANGED <<last_keepalive, lock, clock, calls>>

\* restart_browser lines 196-204
RestartInit(outcome) ==
  /\ th[RestartCaller].pc = "restart_init"
  /\ lock = RestartCaller
  /\ LET s == initialize_browser(outcome, driver, last_keepalive, clock)
     IN /\ driver' = s.driver
        /\ browser_ready' = s.browser_ready
        /\ last_keepalive' = s.last_keepalive
        /\ th' = [th EXCEPT ![RestartCaller].pc = "idle",
                            ![RestartCaller].res = IF s.browser_ready THEN "restarted"
                                                   ELSE "failed",
                            ![RestartCaller].reinitialized = TRUE,
                            ![RestartCaller].reinit_failed = outcome # "ready",
                            ![RestartCaller].ready_ret = s.browser_ready]
  /\ lock' = 0
  /\ UNCHANGED <<clock, calls>>

\* time passes
OdTick ==
  /\ Serving
  /\ clock + TickStep <= MaxClock
  /\ clock' = clock + TickStep
  /\ UNCHANGED <<driver, browser_ready, last_keepalive, lock, th, calls>>

(***************************************************************************)
(* The consumer's batch (get_tokens_concurrent, consumer.py lines 40-51).  *)
(*   batch   the call: the count asked for, the get_one_token calls not    *)
(*       yet taken by an executor thread and those in progress, the tokens *)
(*       collected in completion order, the result; history: the number of *)
(*       calls made, the live index entries and whether the store was      *)
(*       clean when the call began, whether no other client of the store   *)
(*       and no clock tick has acted since                                 *)
(* The executor's threads are the consumer threads of the concurrent store *)
(* above; each runs get_one_token under the process's lock.                *)
(***************************************************************************)
VARIABLES batch

batchVars == <<batch>>

BATCH_THREADS == 10

BatchCounts == 0..MaxCount

IdleBatch == [pc |-> "idle", count |-> 0, left |-> 0, active |-> 0, tokens |-> <<>>,
              res |-> "none", alone |-> TRUE, live0 |-> 0, clean0 |-> FALSE, calls |-> 0]

Min(a, b) == IF a <= b THEN a ELSE b

\* lines 42-43: the executor is built with min(count, 10) threads, which raises
\* ValueError unless that is positive; count calls are submitted
BatchCall(count) ==
  /\ batch.pc = "idle"
  /\ batch.calls < MaxBatches
  /\ batch' = IF Min(count, BATCH_THREADS) <= 0
              THEN [IdleBatch EXCEPT !.count = count, !.res = "ValueError",
                                     !.calls = batch.calls + 1]
              ELSE [IdleBatch EXCEPT !.pc = "running", !.count = count, !.left = count,
                                     !.live0 = Cardinality(LiveKeys(kv, idx, now)),
                                     !.clean0 = Clean(kv, idx, now),
                                     !.calls = batch.calls + 1]
  /\ UNCHANGED <<storeVars, concVars>>

\* an executor thread takes a submitted call and enters get_one_token
BatchTake(c) ==
  /\ batch.pc = "running"
  /\ c <= Min(batch.count, BATCH_THREADS)
  /\ batch.left > 0
  /\ ConsumerLock(c)
  /\ batch' = [batch EXCEPT !.left = @ - 1, !.active = @ + 1]

\* get_one_token lines 24-26
BatchZpopmax(c) ==
  /\ batch.pc = "running"
  /\ PopZpopmax(c)
  /\ batch' = IF DOMAIN idx = {} THEN [batch EXCEPT !.active = @ - 1] ELSE batch

\* get_one_token lines 31-32
BatchGet(c) ==
  /\ batch.pc = "running"
  /\ PopGet(c)
  /\ batch' = IF RedisGet(kv, pp[c].key, now) = Nil THEN [batch EXCEPT !.active = @ - 1]
              ELSE batch

\* get_one_token lines 33-35, and lines 46-49: the token is collected
BatchDelete(c) ==
  /\ batch.pc = "running"
  /\ PopDelete(c)
  /\ batch' = [batch EXCEPT !.active = @ - 1, !.tokens = Append(@, pp[c].data.token)]

\* lines 46-51: every future has completed
BatchReturn ==
  /\ batch.pc = "running"
  /\ batch.left = 0
  /\ batch.active = 0
  /\ batch' = [batch EXCEPT !.pc = "idle", !.res = "ok"]
  /\ UNCHANGED <<storeVars, concVars>>

\* another client of the store, or the clock, acts during the call
NotAlone == batch' = IF batch.pc = "running" THEN [batch EXCEPT !.alone = FALSE] ELSE batch

(***************************************************************************)
(* POST /cleanup (server.py lines 436-447).                                *)
(*   resp   the latest response of the endpoint: its status, the count it  *)
(*       reports, and (history) whether the store failed during the sweep  *)
(***************************************************************************)
VARIABLES resp

apiVars == <<resp>>

NoResponse == [endpoint |-> "none", status |-> 0, removed |-> 0, store_error |-> FALSE]

\* cleanup_stale_references as a call: the count it returns, what it leaves of
\* the index, whether it raises; a store error is caught and 0 returned
cleanup_call(zset, t, outcome) ==
  IF outcome = "error"
  THEN [raised |-> FALSE, removed |-> 0, idx |-> zset]
  ELSE [raised |-> FALSE, removed |-> Cardinality(ZRangeByScore(zset, expired_cutoff(t))),
        idx |-> cleanup_stale_references(zset, t)]

\* cleanup_stale_tokens: success with the count, or 500 when the sweep raises
CleanupRequest(outcome) ==
  LET r == cleanup_call(idx, now, outcome)
  IN /\ idx' = r.idx
     /\ resp' = [endpoint |-> "/cleanup",
                 status |-> IF r.raised THEN 500 ELSE 200,
                 removed |-> IF r.raised THEN 0 ELSE r.removed,
                 store_error |-> (outcome = "error")]
     /\ last' = [NoCall EXCEPT !.op = "sweep"]
     /\ UNCHANGED <<now, kv>>

(***************************************************************************)
(* The producer worker's loop (token_worker, server.py lines 208-262).     *)
(*   shutdown_event[w]   worker w's threading.Event                        *)
(*   tw[w]   worker w: where it is; its driver ("none": None, "open": a    *)
(*       session); the number of sessions it has opened, the latest being  *)
(*       the one it holds; the token and duration of its latest solve      *)
(*       (<<>>: no token); history: cur, the kind of the latest solve      *)
(*       ("failed", "fast", "slow"), the session it ran on and whether its *)
(*       token was added to the store; the tokens it has added, and those  *)
(*       added since its event was set; open, the sessions it opened that  *)
(*       no driver.quit() has closed                                       *)
(* A worker's steps are the calls that can block or fail: opening a        *)
(* session, the solve (its start and its end), add_token, driver.quit().   *)
(***************************************************************************)
VARIABLES tw, shutdown_event

loopVars == <<tw, shutdown_event>>

poolRest == <<generation_active, max_workers, lists, worker_shutdown_events, tasks, cl,
              starts, crashed>>

BROWSER_RESTART_THRESHOLD == 2

\* the seconds a solve can take: under, at and over the threshold
Durations == {1, 2, 3}

\* the worker that runs in SpecWorker
LoopWorkers == {1}

\* the tokens a solve can give
LoopTokens == {<<1>> \o TailA, <<1>> \o TailB}

NoSolve == [kind |-> "none", session |-> 0, pushed |-> FALSE]

QueuedLoop == [pc |-> "queued", driver |-> "none", session |-> 0, token |-> <<>>,
               duration |-> 0, cur |-> NoSolve, pushes |-> 0, late |-> 0,
               open |-> 0]

\* lines 209-212
LoopEnter(w) ==
  /\ tw[w].pc = "queued"
  /\ workers_running' = workers_running + 1
  /\ tw' = [tw EXCEPT ![w].pc = "top"]
  /\ UNCHANGED <<storeVars, shutdown_event, poolRest>>

\* line 215 with the test of the event left out
LoopTopNoCheck(w) ==
  /\ tw[w].pc = "top"
  /\ tw' = [tw EXCEPT ![w].pc = IF tw[w].driver = "none" THEN "open" ELSE "check"]
  /\ UNCHANGED <<storeVars, shutdown_event, workers_running, poolRest>>

\* lines 215-217: the loop ends when the event is set; a session is opened when
\* the worker has none
LoopTop(w) ==
  /\ tw[w].pc = "top"
  /\ tw' = [tw EXCEPT ![w].pc = IF shutdown_event[w] THEN "finally"
                                ELSE IF tw[w].driver = "none" THEN "open" ELSE "check"]
  /\ UNCHANGED <<storeVars, shutdown_event, workers_running, poolRest>>

\* lines 218-221: the session opens, or a call raises and the handler of lines
\* 247-255 closes what was opened
OpenSession(w, outcome) ==
  /\ tw[w].pc = "open"
  /\ tw[w].session < MaxSessions
  /\ tw' = IF outcome = "ok"
           THEN [tw EXCEPT ![w].pc = "check", ![w].driver = "open", ![w].session = @ + 1,
                           ![w].open = @ + 1]
           ELSE [tw EXCEPT ![w].pc = "top"]
  /\ UNCHANGED <<storeVars, shutdown_event, workers_running, poolRest>>

\* lines 223-224
LoopCheck(w) ==
  /\ tw[w].pc = "check"
  /\ tw' = [tw EXCEPT ![w].pc = IF shutdown_event[w] THEN "finally" ELSE "solve"]
  /\ UNCHANGED <<storeVars, shutdown_event, workers_running, poolRest>>

\* line 226, generate_token line 280: the script starts
SolveStart(w) ==
  /\ tw[w].pc = "solve"
  /\ tw' = [tw EXCEPT ![w].pc = "solving"]
  /\ UNCHANGED <<storeVars, shutdown_event, workers_running, poolRest>>

\* generate_token lines 280-285: a token, or None after an error or a timeout,
\* and the time taken
SolveEnd(w, token, duration) ==
  /\ tw[w].pc = "solving"
  /\ token # <<>> => tw[w].pushes < MaxPushes
  /\ tw' = [tw EXCEPT ![w].pc = "solved", ![w].token = token, ![w].duration = duration,
                      ![w].cur = [kind |-> IF token = <<>> THEN "failed"
                                           ELSE IF duration > BROWSER_RESTART_THRESHOLD
                                           THEN "slow" ELSE "fast",
                                  session |-> tw[w].session,
                                  pushed |-> FALSE]]
  /\ UNCHANGED <<storeVars, shutdown_event, workers_running, poolRest>>

\* lines 227-236: add_token of the record; setex or zadd may raise, which the
\* handler of lines 251-255 catches
Deliver(w, outcome) ==
  /\ tw[w].pc = "solved"
  /\ tw[w].token # <<>>
  /\ LET token_data == [token |-> tw[w].token, timestamp |-> now, worker_id |-> w]
     IN /\ kv' = IF outcome = "setex_raises" THEN kv
                 ELSE add_token_value(kv, token_data, now)
        /\ idx' = IF outcome = "ok" THEN add_token_index(idx, token_data) ELSE idx
  /\ tw' = IF outcome = "ok"
           THEN [tw EXCEPT ![w].pc = "threshold", ![w].cur.pushed = TRUE,
                           ![w].pushes = @ + 1,
                           ![w].late = IF shutdown_event[w] THEN @ + 1 ELSE @]
           ELSE [tw EXCEPT ![w].pc = "handler"]
  /\ UNCHANGED <<now, shutdown_event, workers_running, poolRest>>

\* lines 237-240 left out: the session is kept after a solve without a token
DiscardFailedKeeps(w, quit) ==
  /\ tw[w].pc = "solved"
  /\ tw[w].token = <<>>
  /\ quit = "ok"
  /\ tw' = [tw EXCEPT ![w].pc = "threshold"]
  /\ UNCHANGED <<storeVars, shutdown_event, workers_running, poolRest>>

\* lines 237-240: without a token the session is closed and dropped;
\* driver.quit() may raise
DiscardFailed(w, quit) ==
  /\ tw[w].pc = "solved"
  /\ tw[w].token = <<>>
  /\ tw' = IF quit = "ok"
           THEN [tw EXCEPT ![w].pc = "threshold", ![w].driver = "none", ![w].open = @ - 1]
           ELSE [tw EXCEPT ![w].pc = "handler"]
  /\ UNCHANGED <<storeVars, shutdown_event, workers_running, poolRest>>

\* lines 242-245 with the session dropped from the threshold on
ThresholdInclusive(w, quit) ==
  /\ tw[w].pc = "threshold"
  /\ IF tw[w].duration >= BROWSER_RESTART_THRESHOLD /\ tw[w].driver # "none"
     THEN tw' = IF quit = "ok"
                THEN [tw EXCEPT ![w].pc = "top", ![w].driver = "none", ![w].open = @ - 1]
                ELSE [tw EXCEPT ![w].pc = "handler"]
     ELSE /\ quit = "ok"
          /\ tw' = [tw EXCEPT ![w].pc = "top"]
  /\ UNCHANGED <<storeVars, shutdown_event, workers_running, poolRest>>

\* lines 242-245: a solve that took longer than the threshold drops the session
Threshold(w, quit) ==
  /\ tw[w].pc = "threshold"
  /\ IF tw[w].duration > BROWSER_RESTART_THRESHOLD /\ tw[w].driver # "none"
     THEN tw' = IF quit = "ok"
                THEN [tw EXCEPT ![w].pc = "top", ![w].driver = "none", ![w].open = @ - 1]
                ELSE [tw EXCEPT ![w].pc = "handler"]
     ELSE /\ quit = "ok"
          /\ tw' = [tw EXCEPT ![w].pc = "top"]
  /\ UNCHANGED <<storeVars, shutdown_event, workers_running, poolRest>>

\* lines 247-255: the handler closes and drops the session; a driver.quit()
\* that raises here ends the loop
Handler(w, quit) ==
  /\ tw[w].pc = "handler"
  /\ IF tw[w].driver # "none"
     THEN tw' = IF quit = "ok"
                THEN [tw EXCEPT ![w].pc = "top", ![w].driver = "none", ![w].open = @ - 1]
                ELSE [tw EXCEPT ![w].pc = "finally"]
     ELSE /\ quit = "ok"
          /\ tw' = [tw EXCEPT ![w].pc = "top"]
  /\ UNCHANGED <<storeVars, shutdown_event, workers_running, poolRest>>

\* lines 257-262: the count goes down, then the session the worker still holds
\* is closed; a driver.quit() that raises here ends the thread with the session
\* not closed
LoopFinally(w, quit) ==
  /\ tw[w].pc = "finally"
  /\ tw[w].driver = "none" => quit = "ok"
  /\ workers_running' = workers_running - 1
  /\ tw' = IF tw[w].driver # "none" /\ quit = "ok"
           THEN [tw EXCEPT ![w].pc = "exited", ![w].driver = "none", ![w].open = @ - 1]
           ELSE [tw EXCEPT ![w].pc = "exited"]
  /\ UNCHANGED <<storeVars, shutdown_event, poolRest>>

\* stop_token_generation line 199: event.set()
Signal(w) ==
  /\ ~shutdown_event[w]
  /\ shutdown_event' = [shutdown_event EXCEPT ![w] = TRUE]
  /\ UNCHANGED <<storeVars, tw, workers_running, poolRest>>

(***************************************************************************)
(* The background cleanup thread: RestTokenManager.__init__ lines 78-82    *)
(* starts it as a daemon thread, _background_cleanup_worker lines 157-173  *)
(* is its loop.                                                            *)
(*   cleanup_active  the flag the loop tests; no code of the repository    *)
(*                   clears it                                             *)
(*   bg    the thread: pc "loop" at the test of line 161, "sleep" inside   *)
(*         time.sleep(30), "stopped" after the loop; last, how its latest  *)
(*         pass ended ("ok", "error": the store failed); removed, the      *)
(*         count that pass returned                                        *)
(* The thread reads none of the pool's fields.                             *)
(***************************************************************************)
VARIABLES cleanup_active, bg

bgVars == <<cleanup_active, bg>>

\* the caller of start and stop in SpecSweep, and the worker count it asks for
SweepCallers == {1}

SweepCounts == {1}

\* lines 161-167 with a store error ending the loop instead of being absorbed
BackgroundPassDies(outcome) ==
  /\ bg.pc = "loop"
  /\ LET r == cleanup_call(idx, now, outcome)
     IN /\ idx' = r.idx
        /\ bg' = IF ~cleanup_active \/ outcome = "error"
                 THEN [bg EXCEPT !.pc = "stopped"]
                 ELSE [pc |-> "sleep", last |-> outcome, removed |-> r.removed]
  /\ UNCHANGED <<now, kv, cleanup_active>>

\* lines 161-167: one pass of the loop up to its sleep; cleanup_stale_references
\* absorbs a store error and returns 0 (lines 153-155), so the handler of lines
\* 169-171 is never entered
BackgroundPass(outcome) ==
  /\ bg.pc = "loop"
  /\ IF cleanup_active
     THEN LET r == cleanup_call(idx, now, outcome)
          IN /\ idx' = r.idx
             /\ bg' = [pc |-> "sleep", last |-> outcome, removed |-> r.removed]
     ELSE /\ outcome = "ok"
          /\ idx' = idx
          /\ bg' = [bg EXCEPT !.pc = "stopped"]
  /\ UNCHANGED <<now, kv, cleanup_active>>

\* line 167: time.sleep(30) returns, the loop tests its flag again
BackgroundWake ==
  /\ bg.pc = "sleep"
  /\ bg' = [bg EXCEPT !.pc = "loop"]
  /\ UNCHANGED <<storeVars, cleanup_active>>

(***************************************************************************)
(* Initial state and specifications.                                       *)
(***************************************************************************)
vars == <<storeVars, seqVars, concVars, poolVars, odVars, batchVars, apiVars, loopVars,
          bgVars>>

Init ==
  /\ now = 0
  /\ kv = Empty
  /\ idx = Empty
  /\ last = NoCall
  /\ wk = [w \in WorkerIds |-> IdleWorker]
  /\ pp = [p \in Poppers |-> IdlePopper]
  /\ client_lock = 0
  /\ adds = [k \in Keys |-> 0]
  /\ returned = Empty
  /\ generation_active = FALSE
  /\ workers_running = 0
  /\ max_workers = DEFAULT_MAX_WORKERS
  /\ lists = <<>>
  /\ worker_shutdown_events = 0
  /\ tasks = <<>>
  /\ cl = [c \in Callers |-> IdleCaller]
  /\ starts = 0
  /\ crashed = FALSE
  /\ driver = "none"
  /\ browser_ready = FALSE
  /\ last_keepalive = 0
  /\ lock = 0
  /\ clock = 0
  /\ th = [t \in Threads |-> IF t = Main THEN [IdleThread EXCEPT !.pc = "construct"]
                                         ELSE IdleThread]
  /\ calls = 0
  /\ batch = IdleBatch
  /\ resp = NoResponse
  /\ tw = [w \in WorkerIds |-> QueuedLoop]
  /\ shutdown_event = [w \in WorkerIds |-> FALSE]
  /\ cleanup_active = TRUE
  /\ bg = [pc |-> "loop", last |-> "none", removed |-> 0]

NextSeq ==
  \/ \E token \in Tokens, ts \in { t \in Stamps : t <= now } :
        SeqAdd([token |-> token, timestamp |-> ts, worker_id |-> 1])
          /\ UNCHANGED <<concVars, poolVars, odVars, batchVars, apiVars, loopVars, bgVars>>
  \/ SeqPop /\ UNCHANGED <<concVars, poolVars, odVars, batchVars, apiVars, loopVars, bgVars>>
  \/ SeqSweep /\ UNCHANGED <<concVars, poolVars, odVars, batchVars, apiVars, loopVars, bgVars>>
  \/ SeqTick /\ UNCHANGED <<concVars, poolVars, odVars, batchVars, apiVars, loopVars, bgVars>>

SpecSeq == Init /\ [][NextSeq]_vars

NextStore ==
  \/ \E w \in WorkerIds, token \in WorkerTokens : WorkerStamp(w, token) /\ UNCHANGED <<seqVars, poolVars, odVars, batchVars, apiVars, loopVars, bgVars>>
  \/ \E w \in WorkerIds : WorkerSetex(w) /\ UNCHANGED <<seqVars, poolVars, odVars, batchVars, apiVars, loopVars, bgVars>>
  \/ \E w \in WorkerIds : WorkerZadd(w) /\ UNCHANGED <<seqVars, poolVars, odVars, batchVars, apiVars, loopVars, bgVars>>
  \/ \E c \in StorePoppers \cap Consumers : ConsumerLock(c) /\ UNCHANGED <<seqVars, poolVars, odVars, batchVars, apiVars, loopVars, bgVars>>
  \/ \E p \in StorePoppers : PopZpopmax(p) /\ UNCHANGED <<seqVars, poolVars, odVars, batchVars, apiVars, loopVars, bgVars>>
  \/ \E p \in StorePoppers : PopGet(p) /\ UNCHANGED <<seqVars, poolVars, odVars, batchVars, apiVars, loopVars, bgVars>>
  \/ \E p \in StorePoppers : PopDelete(p) /\ UNCHANGED <<seqVars, poolVars, odVars, batchVars, apiVars, loopVars, bgVars>>
  \/ StoreSweep /\ UNCHANGED <<seqVars, poolVars, odVars, batchVars, apiVars, loopVars, bgVars>>
  \/ StoreTick /\ UNCHANGED <<seqVars, poolVars, odVars, batchVars, apiVars, loopVars, bgVars>>

SpecStore == Init /\ [][NextStore]_vars

NextPool ==
  \/ \E c \in Callers, workers \in WorkerCounts :
        StartLocked(c, workers) /\ UNCHANGED <<storeVars, seqVars, concVars, odVars, batchVars, apiVars, loopVars, bgVars>>
  \/ \E c \in Callers : StartEvents(c) /\ UNCHANGED <<storeVars, seqVars, concVars, odVars, batchVars, apiVars, loopVars, bgVars>>
  \/ \E c \in Callers : StartSubmit(c) /\ UNCHANGED <<storeVars, seqVars, concVars, odVars, batchVars, apiVars, loopVars, bgVars>>
  \/ \E c \in Callers : StopLocked(c) /\ UNCHANGED <<storeVars, seqVars, concVars, odVars, batchVars, apiVars, loopVars, bgVars>>
  \/ \E c \in Callers : StopSignal(c) /\ UNCHANGED <<storeVars, seqVars, concVars, odVars, batchVars, apiVars, loopVars, bgVars>>
  \/ \E c \in Callers : StopPoll(c) /\ UNCHANGED <<storeVars, seqVars, concVars, odVars, batchVars, apiVars, loopVars, bgVars>>
  \/ \E t \in DOMAIN tasks : WorkerBegin(t) /\ UNCHANGED <<storeVars, seqVars, concVars, odVars, batchVars, apiVars, loopVars, bgVars>>
  \/ \E t \in DOMAIN tasks : WorkerExit(t) /\ UNCHANGED <<storeVars, seqVars, concVars, odVars, batchVars, apiVars, loopVars, bgVars>>
  \/ \E t \in DOMAIN tasks : WorkerCrash(t) /\ UNCHANGED <<storeVars, seqVars, concVars, odVars, batchVars, apiVars, loopVars, bgVars>>

SpecPool == Init /\ [][NextPool]_vars

\* a thread inside stop_token_generation keeps running: its loop of event.set()
\* and its polling loop take their next step
StopProgress(c) ==
  (StopSignal(c) \/ StopPoll(c)) /\ UNCHANGED <<storeVars, seqVars, concVars, odVars, batchVars, apiVars, loopVars, bgVars>>

SpecPoolFair == SpecPool /\ \A c \in Callers : WF_vars(StopProgress(c))

\* a thread inside start_token_generation keeps running, a free executor thread
\* takes a queued call, and a worker whose event is set gets to the test that
\* ends its loop (its solve and its session open terminate)
StartProgress(c) ==
  (StartEvents(c) \/ StartSubmit(c)) /\ UNCHANGED <<storeVars, seqVars, concVars, odVars, batchVars, apiVars, loopVars, bgVars>>

WorkerProgress ==
  (\E t \in DOMAIN tasks : WorkerBegin(t) \/ WorkerExit(t)) /\ UNCHANGED <<storeVars, seqVars, concVars, odVars, batchVars, apiVars, loopVars, bgVars>>

SpecPoolLive ==
  /\ SpecPoolFair
  /\ \A c \in Callers : WF_vars(StartProgress(c))
  /\ WF_vars(WorkerProgress)

NextOnDemand ==
  \/ \E outcome \in InitOutcomes :
        Construct(outcome) /\ UNCHANGED <<storeVars, seqVars, concVars, poolVars, batchVars, apiVars, loopVars, bgVars>>
  \/ \E c \in Clients : GetTokenCheck(c) /\ UNCHANGED <<storeVars, seqVars, concVars, poolVars, batchVars, apiVars, loopVars, bgVars>>
  \/ \E t \in Threads : Acquire(t) /\ UNCHANGED <<storeVars, seqVars, concVars, poolVars, batchVars, apiVars, loopVars, bgVars>>
  \/ \E t \in Threads, outcome \in {"token", "none", "raise"} :
        Solve(t, outcome) /\ UNCHANGED <<storeVars, seqVars, concVars, poolVars, batchVars, apiVars, loopVars, bgVars>>
  \/ \E t \in Threads, outcome \in InitOutcomes :
        Reinitialize(t, outcome) /\ UNCHANGED <<storeVars, seqVars, concVars, poolVars, batchVars, apiVars, loopVars, bgVars>>
  \/ \E c \in Clients : GetTokenNext(c) /\ UNCHANGED <<storeVars, seqVars, concVars, poolVars, batchVars, apiVars, loopVars, bgVars>>
  \/ KeepaliveCheck /\ UNCHANGED <<storeVars, seqVars, concVars, poolVars, batchVars, apiVars, loopVars, bgVars>>
  \/ \E outcome \in {"ok", "raise"} :
        KeepaliveNext(outcome) /\ UNCHANGED <<storeVars, seqVars, concVars, poolVars, batchVars, apiVars, loopVars, bgVars>>
  \/ \E outcome \in InitOutcomes :
        KeepaliveRestart(outcome) /\ UNCHANGED <<storeVars, seqVars, concVars, poolVars, batchVars, apiVars, loopVars, bgVars>>
  \/ RestartCall /\ UNCHANGED <<storeVars, seqVars, concVars, poolVars, batchVars, apiVars, loopVars, bgVars>>
  \/ RestartClose /\ UNCHANGED <<storeVars, seqVars, concVars, poolVars, batchVars, apiVars, loopVars, bgVars>>
  \/ \E outcome \in InitOutcomes :
        RestartInit(outcome) /\ UNCHANGED <<storeVars, seqVars, concVars, poolVars, batchVars, apiVars, loopVars, bgVars>>
  \/ OdTick /\ UNCHANGED <<storeVars, seqVars, concVars, poolVars, batchVars, apiVars, loopVars, bgVars>>

SpecOnDemand == Init /\ [][NextOnDemand]_vars

NextBatch ==
  \/ \E count \in BatchCounts : BatchCall(count) /\ UNCHANGED <<seqVars, poolVars, odVars, apiVars, loopVars, bgVars>>
  \/ \E c \in Consumers : BatchTake(c) /\ UNCHANGED <<seqVars, poolVars, odVars, apiVars, loopVars, bgVars>>
  \/ \E c \in Consumers : BatchZpopmax(c) /\ UNCHANGED <<seqVars, poolVars, odVars, apiVars, loopVars, bgVars>>
  \/ \E c \in Consumers : BatchGet(c) /\ UNCHANGED <<seqVars, poolVars, odVars, apiVars, loopVars, bgVars>>
  \/ \E c \in Consumers : BatchDelete(c) /\ UNCHANGED <<seqVars, poolVars, odVars, apiVars, loopVars, bgVars>>
  \/ BatchReturn /\ UNCHANGED <<seqVars, poolVars, odVars, apiVars, loopVars, bgVars>>
  \/ \E w \in WorkerIds, token \in WorkerTokens :
        WorkerStamp(w, token) /\ NotAlone /\ UNCHANGED <<seqVars, poolVars, odVars, apiVars, loopVars, bgVars>>
  \/ \E w \in WorkerIds : WorkerSetex(w) /\ NotAlone /\ UNCHANGED <<seqVars, poolVars, odVars, apiVars, loopVars, bgVars>>
  \/ \E w \in WorkerIds : WorkerZadd(w) /\ NotAlone /\ UNCHANGED <<seqVars, poolVars, odVars, apiVars, loopVars, bgVars>>
  \/ StoreTick /\ NotAlone /\ UNCHANGED <<seqVars, poolVars, odVars, apiVars, loopVars, bgVars>>

SpecBatch == Init /\ [][NextBatch]_vars

NextApi ==
  \/ \E token \in Tokens, ts \in { t \in Stamps : t <= now } :
        SeqAdd([token |-> token, timestamp |-> ts, worker_id |-> 1])
          /\ UNCHANGED <<concVars, poolVars, odVars, batchVars, apiVars, loopVars, bgVars>>
  \/ SeqTick /\ UNCHANGED <<concVars, poolVars, odVars, batchVars, apiVars, loopVars, bgVars>>
  \/ \E outcome \in {"ok", "error"} :
        CleanupRequest(outcome) /\ UNCHANGED <<concVars, poolVars, odVars, batchVars, loopVars, bgVars>>

SpecApi == Init /\ [][NextApi]_vars

NextWorker ==
  \/ \E w \in LoopWorkers : LoopEnter(w) /\ UNCHANGED <<seqVars, concVars, odVars, batchVars, apiVars, bgVars>>
  \/ \E w \in LoopWorkers : LoopTop(w) /\ UNCHANGED <<seqVars, concVars, odVars, batchVars, apiVars, bgVars>>
  \/ \E w \in LoopWorkers, outcome \in {"ok", "raises"} : OpenSession(w, outcome) /\ UNCHANGED <<seqVars, concVars, odVars, batchVars, apiVars, bgVars>>
  \/ \E w \in LoopWorkers : LoopCheck(w) /\ UNCHANGED <<seqVars, concVars, odVars, batchVars, apiVars, bgVars>>
  \/ \E w \in LoopWorkers : SolveStart(w) /\ UNCHANGED <<seqVars, concVars, odVars, batchVars, apiVars, bgVars>>
  \/ \E w \in LoopWorkers, token \in LoopTokens \cup {<<>>}, duration \in Durations :
        SolveEnd(w, token, duration) /\ UNCHANGED <<seqVars, concVars, odVars, batchVars, apiVars, bgVars>>
  \/ \E w \in LoopWorkers, outcome \in {"ok", "setex_raises", "zadd_raises"} :
        Deliver(w, outcome) /\ UNCHANGED <<seqVars, concVars, odVars, batchVars, apiVars, bgVars>>
  \/ \E w \in LoopWorkers, quit \in {"ok", "raises"} : DiscardFailed(w, quit) /\ UNCHANGED <<seqVars, concVars, odVars, batchVars, apiVars, bgVars>>
  \/ \E w \in LoopWorkers, quit \in {"ok", "raises"} : Threshold(w, quit) /\ UNCHANGED <<seqVars, concVars, odVars, batchVars, apiVars, bgVars>>
  \/ \E w \in LoopWorkers, quit \in {"ok", "raises"} : Handler(w, quit) /\ UNCHANGED <<seqVars, concVars, odVars, batchVars, apiVars, bgVars>>
  \/ \E w \in LoopWorkers, quit \in {"ok", "raises"} : LoopFinally(w, quit) /\ UNCHANGED <<seqVars, concVars, odVars, batchVars, apiVars, bgVars>>
  \/ \E w \in LoopWorkers : Signal(w) /\ UNCHANGED <<seqVars, concVars, odVars, batchVars, apiVars, bgVars>>

SpecWorker == Init /\ [][NextWorker]_vars

\* the cleanup thread beside the store's adds and the clock, and beside one
\* caller starting and stopping the pool
NextSweep ==
  \/ \E outcome \in {"ok", "error"} :
        BackgroundPass(outcome) /\ UNCHANGED <<seqVars, concVars, poolVars, odVars, batchVars, apiVars, loopVars>>
  \/ BackgroundWake /\ UNCHANGED <<seqVars, concVars, poolVars, odVars, batchVars, apiVars, loopVars>>
  \/ \E token \in LoopTokens :
        SeqAdd([token |-> token, timestamp |-> now, worker_id |-> 1])
          /\ UNCHANGED <<concVars, poolVars, odVars, batchVars, apiVars, loopVars, bgVars>>
  \/ SeqTick /\ UNCHANGED <<concVars, poolVars, odVars, batchVars, apiVars, loopVars, bgVars>>
  \/ \E c \in SweepCallers, workers \in SweepCounts :
        StartLocked(c, workers) /\ UNCHANGED <<storeVars, seqVars, concVars, odVars, batchVars, apiVars, loopVars, bgVars>>
  \/ \E c \in SweepCallers : StartEvents(c) /\ UNCHANGED <<storeVars, seqVars, concVars, odVars, batchVars, apiVars, loopVars, bgVars>>
  \/ \E c \in SweepCallers : StartSubmit(c) /\ UNCHANGED <<storeVars, seqVars, concVars, odVars, batchVars, apiVars, loopVars, bgVars>>
  \/ \E c \in SweepCallers : StopLocked(c) /\ UNCHANGED <<storeVars, seqVars, concVars, odVars, batchVars, apiVars, loopVars, bgVars>>
  \/ \E c \in SweepCallers : StopSignal(c) /\ UNCHANGED <<storeVars, seqVars, concVars, odVars, batchVars, apiVars, loopVars, bgVars>>
  \/ \E c \in SweepCallers : StopPoll(c) /\ UNCHANGED <<storeVars, seqVars, concVars, odVars, batchVars, apiVars, loopVars, bgVars>>
  \/ \E t \in DOMAIN tasks : WorkerBegin(t) /\ UNCHANGED <<storeVars, seqVars, concVars, odVars, batchVars, apiVars, loopVars, bgVars>>
  \/ \E t \in DOMAIN tasks : WorkerExit(t) /\ UNCHANGED <<storeVars, seqVars, concVars, odVars, batchVars, apiVars, loopVars, bgVars>>

SpecSweep == Init /\ [][NextSweep]_vars

\* the cleanup thread keeps being scheduled: its sleep returns and its next pass
\* is made, whatever the pass meets
SweepProgress ==
  (BackgroundWake \/ \E outcome \in {"ok", "error"} : BackgroundPass(outcome))
    /\ UNCHANGED <<seqVars, concVars, poolVars, odVars, batchVars, apiVars, loopVars>>

SpecSweepFair == SpecSweep /\ WF_vars(SweepProgress)

\* a pass that the store answers
SweepAnswered ==
  BackgroundPass("ok") /\ UNCHANGED <<seqVars, concVars, poolVars, odVars, batchVars, apiVars, loopVars>>

\* store errors are transient: of the passes made for ever, some are answered
SpecSweepLive == SpecSweepFair /\ SF_vars(SweepAnswered)

(***************************************************************************)
(* The store's contract (SpecSeq).                                         *)
(***************************************************************************)
\* a step of SpecSeq that is a call of get_newest_token / of the sweep
PopStep == last'.op = "pop" /\ now' = now
SweepStep == last'.op = "sweep" /\ now' = now

\* the index entries with the highest score
Tops(zset) == { k \in DOMAIN zset : \A j \in DOMAIN zset : zset[j] <= zset[k] }

\* C1: after adds with distinct issuedAt, in any insertion order, and while no
\* value has expired, a pop of a non-empty store returns the record with the
\* highest issuedAt and removes exactly that entry, so that pops in a row return
\* strictly decreasing issuedAt; a pop of the empty store returns empty, and
\* after an empty pop every further pop is empty.
C1_PopsNewestFirst ==
  [][ (PopStep /\ Clean(kv, idx, now)) =>
        /\ DOMAIN idx = {} => last'.ret = Nil /\ idx' = idx
        /\ DOMAIN idx # {} =>
              /\ last'.ret # Nil
              /\ \A k \in DOMAIN idx : idx[k] <= last'.ret.timestamp
              /\ \A k \in DOMAIN idx' : idx'[k] < last'.ret.timestamp
              /\ ZCard(idx') = ZCard(idx) - 1
        /\ (last.op = "pop" /\ last.clean /\ last.ret # Nil /\ last'.ret # Nil)
              => last'.ret.timestamp < last.ret.timestamp
        /\ (last.op = "pop" /\ last.clean /\ last.ret = Nil) => last'.ret = Nil
    ]_vars

\* three records were popped in a row, then the store was empty
C1_Witness ==
  last.op = "pop" /\ last.branch = "empty" /\ last.clean /\ last.streak = 3

\* C3: when the highest-scored index entry references a value whose TTL has
\* elapsed, get_newest_token returns empty, removes that index entry and nothing
\* else, and the count decreases by exactly one.
C3_StalePopCleansIndex ==
  [][ (PopStep /\ DOMAIN idx # {} /\ \A k \in Tops(idx) : ~Live(kv, k, now)) =>
        /\ last'.ret = Nil
        /\ \E k \in Tops(idx) : idx' = ZRemove(idx, {k})
        /\ get_token_count(idx') = get_token_count(idx) - 1
        /\ kv' = kv
    ]_vars

\* one record was added, its TTL elapsed, the pop returned empty and the count is 0
C3_Witness ==
  last.op = "pop" /\ last.branch = "stale" /\ last.ret = Nil /\ get_token_count(idx) = 0

\* C4: after a sweep no index entry with a score below the cutoff remains, and
\* every entry whose score is at or above the cutoff (also exactly equal to it)
\* is still present and unchanged.
C4_SweepKeepsCutoff ==
  [][ SweepStep =>
        LET cutoff == now - token_expiry - CLEANUP_BUFFER
        IN /\ \A k \in DOMAIN idx' : idx'[k] >= cutoff
           /\ \A k \in DOMAIN idx : idx[k] >= cutoff => k \in DOMAIN idx' /\ idx'[k] = idx[k]
    ]_vars

(***************************************************************************)
(* The store under concurrency (SpecStore).                                *)
(***************************************************************************)
\* C2: a token record whose key was added once is returned by at most one pop
\* call, and once a pop has returned it neither its index entry nor its value
\* entry exists.
C2_SingleUse ==
  \A d \in DOMAIN returned :
    adds[TokenKey(d.token)] = 1 =>
      /\ returned[d] = 1
      /\ TokenKey(d.token) \notin DOMAIN idx
      /\ TokenKey(d.token) \notin DOMAIN kv

\* two records with distinct keys, each added once, were both returned
C2_Witness ==
  /\ Cardinality(DOMAIN returned) = 2
  /\ \A d \in DOMAIN returned : adds[TokenKey(d.token)] = 1

(***************************************************************************)
(* The pool manager (SpecPool, SpecPoolFair).                              *)
(***************************************************************************)
\* thread c calls start / stop in this step
StartCall(c) == cl[c].pc = "idle" /\ cl'[c] # cl[c] /\ cl'[c].op = "start"
StopCall(c) == cl[c].pc = "idle" /\ cl'[c] # cl[c] /\ cl'[c].op = "stop"

\* C5: start called while the pool is active is rejected (AlreadyActive): it
\* spawns no worker, creates no shutdown signal, and leaves generation_active,
\* max_workers and the running worker count unchanged.
C5_StartWhileActiveRejected ==
  [][ \A c \in Callers :
        (StartCall(c) /\ generation_active) =>
          /\ cl'[c].res = "AlreadyActive"
          /\ cl'[c].pc = "idle"
          /\ UNCHANGED mgrVars
    ]_vars

\* a start was rejected while the pool was active with all its workers running
C5_Witness ==
  \E c \in Callers :
    /\ cl[c].op = "start" /\ cl[c].res = "AlreadyActive"
    /\ generation_active
    /\ workers_running = max_workers

\* C6: a successful start(workerCount) on an inactive pool marks the pool active,
\* records workerCount as max_workers and spawns exactly workerCount workers, and
\* the running worker count reaches workerCount while none has been signalled or
\* has failed: until it has, another worker can begin.  Stated for the first
\* start, with no stop after it.
C6_StartRunsAllWorkers ==
  \A c \in Callers :
    (cl[c].op = "start" /\ cl[c].res = "started" /\ starts = 1 /\ generation_active
       /\ ~crashed) =>
      /\ max_workers = cl[c].arg
      /\ cl[c].spawned = cl[c].arg
      /\ \A g \in DOMAIN lists : ~lists[g].set
      /\ workers_running = cl[c].arg \/ ENABLED (\E t \in DOMAIN tasks : WorkerBegin(t))

\* C7: whenever the pool is inactive and no stop is still in progress, every
\* worker that was spawned and has not finished has its shutdown signal raised.
C7_InactiveMeansSignalled ==
  (~generation_active /\ \A c \in Callers : ~(cl[c].op = "stop" /\ cl[c].pc # "idle")) =>
    \A t \in DOMAIN tasks : lists[tasks[t].list].set

\* C8: stop called while the pool is inactive is rejected (NotActive): it raises
\* no shutdown signal and leaves the pool state unchanged.
C8_StopWhileInactiveRejected ==
  [][ \A c \in Callers :
        (StopCall(c) /\ ~generation_active) =>
          /\ cl'[c].res = "NotActive"
          /\ cl'[c].pc = "idle"
          /\ UNCHANGED mgrVars
    ]_vars

\* a stop was rejected after the pool had been started and stopped
C8_Witness ==
  \E c \in Callers :
    /\ cl[c].op = "stop" /\ cl[c].res = "NotActive"
    /\ ~generation_active
    /\ lists # <<>>

TwoFailures(c) ==
  /\ th[c].op = "get_token" /\ th[c].pc = "idle"
  /\ Len(th[c].outs) = 2
  /\ th[c].outs[1] \in {"none", "raise"}
  /\ th[c].outs[2] # "token"

\* C10 as claimed: get_token with two consecutive solve failures raises "Failed
\* to generate token after retry" and browser_ready is false as the call
\* returns.
C10_TwoFailuresLeaveNotReady ==
  \A c \in Clients :
    (TwoFailures(c) /\ th[c].outs[2] \in {"none", "raise"}) =>
      /\ th[c].res = "Failed to generate token after retry"
      /\ ~th[c].ready_ret

\* C10 amended: get_token whose first solve fails and whose second attempt,
\* made after the page refresh, gives no token raises "Failed to generate token
\* after retry"; browser_ready is false as the call returns exactly when a
\* reinitialization that a raising solve of the call triggered has failed, and
\* true otherwise.
C10_TwoFailuresRaise ==
  \A c \in Clients :
    TwoFailures(c) =>
      /\ th[c].res = "Failed to generate token after retry"
      /\ th[c].refreshed
      /\ th[c].ready_ret = ~th[c].reinit_failed

\* a get_token raised after a solve that raised, a reinitialization that
\* succeeded and a second solve that returned no token: the session is ready
C10_Witness ==
  \E c \in Clients :
    /\ TwoFailures(c)
    /\ th[c].outs = <<"raise", "none">>
    /\ th[c].res = "Failed to generate token after retry"
    /\ th[c].ready_ret

\* thread c's get_token returns in this step
GetTokenReturn(c) ==
  th[c].op = "get_token" /\ th[c].pc = "generated" /\ th'[c].pc = "idle"

\* C11: a get_token whose first solve fails and whose solve after the page
\* refresh gives a token returns the token; a get_token returns a token exactly
\* when its last solve gave one, and then last_keepalive is set to the time of
\* the return, never earlier than it was.
C11_SuccessAdvancesKeepalive ==
  [][ \A c \in Clients :
        GetTokenReturn(c) =>
          /\ (th'[c].res = "token") = (th[c].outs[Len(th[c].outs)] = "token")
          /\ (Len(th[c].outs) = 2 /\ th[c].outs[1] \in {"none", "raise"}
                /\ th[c].outs[2] = "token") =>
                th'[c].res = "token" /\ th[c].refreshed
          /\ th'[c].res = "token" =>
                last_keepalive' = clock /\ last_keepalive' >= last_keepalive
    ]_vars

\* a get_token returned the token of its second solve, made after a first solve
\* that returned none, and last_keepalive is the time of the call, later than
\* the construction
C11_Witness ==
  \E c \in Clients :
    /\ th[c].op = "get_token" /\ th[c].pc = "idle" /\ th[c].res = "token"
    /\ th[c].outs = <<"none", "token">>
    /\ last_keepalive = clock /\ clock > 0

\* C12: a get_token that finds the session not ready, at its check or when it
\* has waited for the lock, fails with "Browser not ready" without a solve, a
\* page refresh or a reinitialization.
C12_NotReadyFailsFast ==
  \A c \in Clients :
    (th[c].op = "get_token" /\ th[c].pc = "idle"
       /\ (th[c].res = "Browser not ready"
            \/ (th[c].outs # <<>> /\ th[c].outs[1] = "skipped"))) =>
      /\ th[c].res = "Browser not ready"
      /\ \A i \in DOMAIN th[c].outs : th[c].outs[i] = "skipped"
      /\ ~th[c].refreshed
      /\ ~th[c].reinitialized

\* where a thread is operating on the session
SessionPcs == {"generate", "reinit", "generated", "keepalive_restart", "restart_close",
               "restart_init"}

\* C13: of the get_token callers, the keepalive loop and restart_browser, every
\* thread operating on the session holds the lock, so at most one does at a
\* time, and the session's fields change only in a step of the lock's holder.
C13_OneSessionUser ==
  /\ [](\A t \in Threads \ {Main} :
          th[t].pc \in SessionPcs =>
            /\ lock = t
            /\ \A u \in Threads \ {Main, t} : th[u].pc \notin SessionPcs)
  /\ [][ (Serving /\ <<driver, browser_ready, last_keepalive>>' #
                       <<driver, browser_ready, last_keepalive>>) =>
            (lock # 0 /\ th'[lock] # th[lock]) ]_vars

\* a thread reinitializes the session under the lock while two others wait for
\* the lock
C13_Witness ==
  \E t \in Threads \ {Main} :
    /\ th[t].pc = "reinit" /\ lock = t
    /\ Cardinality({u \in Threads : th[u].pc = "acquire"}) >= 2

\* the keepalive loop has finished a round in which the session was ready when
\* it solved
KeepaliveDone ==
  /\ th[KeepaliveThread].op = "keepalive" /\ th[KeepaliveThread].pc = "idle"
  /\ th[KeepaliveThread].outs # <<>>
  /\ lock # KeepaliveThread

NoRepeat(seq) == \A i, j \in DOMAIN seq : i # j => seq[i] # seq[j]

\* C15: get_tokens_concurrent(n), for every n >= 0, returns without an error
\* at most n tokens; none occurs twice when every key was added once; run alone
\* on a store of k live tokens and no stale index entry it returns min(n, k)
\* tokens, fewer than n when k < n.
C15_BatchReturnsTokens ==
  batch.res # "none" =>
    /\ batch.res = "ok"
    /\ Len(batch.tokens) <= batch.count
    /\ (\A k \in Keys : adds[k] <= 1) => NoRepeat(batch.tokens)
    /\ (batch.alone /\ batch.clean0) =>
          Len(batch.tokens) = Min(batch.count, batch.live0)

(***************************************************************************)
(* POST /cleanup (SpecApi).                                                *)
(***************************************************************************)
\* C16: POST /cleanup whose sweep fails with a store error responds 500, not a
\* success reporting zero entries removed.
C16_CleanupErrorIs500 ==
  (resp.endpoint = "/cleanup" /\ resp.store_error) => resp.status = 500

(***************************************************************************)
(* The producer worker's loop (SpecWorker).                                *)
(***************************************************************************)
\* worker w starts a solve in this step
SolveBegins(w) == tw[w].pc = "solve" /\ tw'[w].pc = "solving"

\* worker w is in its loop between the end of an iteration and the end of the
\* next solve
BetweenSolves(w) == tw[w].pc \in {"top", "open", "check", "solve", "solving"}

\* C17: after a solve that gave no token (an error, a timeout, or none
\* returned) the worker adds nothing to the store in that iteration and holds
\* no session when the iteration ends, so the next solve runs on a session
\* opened after the failure.
C17_FailedSolveDiscardsSession ==
  /\ [](\A w \in LoopWorkers :
          tw[w].cur.kind = "failed" =>
            /\ ~tw[w].cur.pushed
            /\ BetweenSolves(w) =>
                  tw[w].driver = "none" \/ tw[w].session > tw[w].cur.session)
  /\ [][ \A w \in LoopWorkers :
           /\ (tw[w].cur.kind = "failed" /\ tw[w].pc \in {"solved", "threshold", "handler"}
                 /\ tw'[w] # tw[w]) => UNCHANGED <<kv, idx>>
           /\ (SolveBegins(w) /\ tw[w].cur.kind = "failed") =>
                 tw[w].driver = "open" /\ tw[w].session > tw[w].cur.session
      ]_vars

\* a worker whose solve on its first session failed is solving on its second
C17_Witness ==
  \E w \in LoopWorkers :
    /\ tw[w].cur.kind = "failed" /\ tw[w].cur.session = 1
    /\ tw[w].pc = "solving" /\ tw[w].session = 2

\* C18: a solve that gave a token has it added to the store whatever time it
\* took (when add_token does not raise); when it took more than the threshold
\* the worker then drops the session, and when it took the threshold or less
\* the worker keeps the session and runs its next solve on it.
C18_SlowSuccessDiscardsSession ==
  /\ [][ \A w \in LoopWorkers :
           (tw[w].pc = "solved" /\ tw[w].token # <<>> /\ tw'[w].pc = "threshold") =>
             /\ tw'[w].cur.pushed
             /\ TokenKey(tw[w].token) \in DOMAIN kv' \cap DOMAIN idx'
             /\ kv'[TokenKey(tw[w].token)].data.token = tw[w].token
      ]_vars
  /\ [](\A w \in LoopWorkers :
          (tw[w].cur.pushed /\ BetweenSolves(w)) =>
            /\ tw[w].cur.kind = "slow" =>
                  tw[w].driver = "none" \/ tw[w].session > tw[w].cur.session
            /\ tw[w].cur.kind = "fast" =>
                  tw[w].driver = "open" /\ tw[w].session = tw[w].cur.session)

\* a solve over the threshold had its token added and the worker is back at the
\* top of its loop without a session
C18_Witness ==
  \E w \in LoopWorkers :
    /\ tw[w].cur.kind = "slow" /\ tw[w].cur.pushed
    /\ tw[w].duration > BROWSER_RESTART_THRESHOLD
    /\ tw[w].pc = "top" /\ tw[w].driver = "none"
    /\ TokenKey(tw[w].token) \in DOMAIN idx

\* C19: once its event is set a worker is not interrupted in a solve, adds at
\* most one more token to the store, and leaves its loop at the next test of
\* the event (the loop's top, or the test after the session is opened).
C19_CooperativeCancel ==
  /\ [](\A w \in LoopWorkers : tw[w].late <= 1)
  /\ [][ \A w \in LoopWorkers :
           /\ (shutdown_event[w] /\ tw[w].pc \in {"top", "check"} /\ tw'[w] # tw[w]) =>
                 tw'[w].pc = "finally"
           /\ tw[w].pc = "solving" => tw'[w].pc \in {"solving", "solved"}
           /\ shutdown_event'[w] # shutdown_event[w] => tw'[w] = tw[w]
      ]_vars

\* a worker whose event was set during a solve added that solve's token and
\* has left
C19_Witness ==
  \E w \in LoopWorkers :
    /\ shutdown_event[w]
    /\ tw[w].late = 1
    /\ tw[w].pc = "exited"

(***************************************************************************)
(* The pool manager's shutdown (SpecPoolLive).                             *)
(***************************************************************************)
\* a stop has returned success, no call of the manager is in progress and the
\* pool is inactive
Stopped ==
  /\ ~generation_active
  /\ \A c \in Callers : cl[c].pc = "idle"
  /\ \E c \in Callers : cl[c].op = "stop" /\ cl[c].res = "stopped"

\* C20: after a stop that returned success, when no start follows (the pool
\* stays inactive), every worker submitted, those still queued in the executor
\* included, eventually exits: from some point on no submitted call is left
\* and the running count is 0.
C20_StoppedPoolDrains ==
  []((Stopped /\ []~generation_active) => <>[](workers_running = 0 /\ tasks = <<>>))

(***************************************************************************)
(* The running worker count (SpecPool).                                    *)
(***************************************************************************)
\* C23: in every reachable state, under any sequence of start and stop calls
\* and worker exits, 0 <= workers_running <= max_workers.
C23_RunningWithinMax ==
  0 <= workers_running /\ workers_running <= max_workers

(***************************************************************************)
(* Pops and sweeps among the workers' adds (SpecStore).                    *)
(***************************************************************************)
\* C24: a pop returns empty only when no live token exists: when a pop ends
\* without a record after its zpopmax, no index entry references a value that
\* has not expired, whatever the interleaving of the workers' add steps with
\* the clock.
C24_PopFindsLiveToken ==
  [][ \A p \in StorePoppers :
        (pp[p].pc = "popped" /\ pp'[p].pc = "idle") =>
          LiveKeys(kv, idx, now) = {}
    ]_vars

\* C25: a sweep pass removes no index entry whose value is still live.
C25_SweepRemovesOnlyStale ==
  [][ (idx' # idx /\ pp' = pp /\ wk' = wk) =>
        \A k \in DOMAIN idx \ DOMAIN idx' : ~Live(kv, k, now)
    ]_vars

(***************************************************************************)
(* A worker's sessions and its place in the running count (SpecWorker).    *)
(***************************************************************************)
\* the worker has counted itself in and has not yet counted itself out
Counted(w) == tw[w].pc \notin {"queued", "exited"}

\* C26: a worker holds at most one open session at any time; when it has
\* exited, for whatever reason, its session is closed and it has left the
\* running count exactly once, so no session is open without a live worker.
C26_ExitClosesSession ==
  /\ \A w \in LoopWorkers :
        /\ tw[w].open <= 1
        /\ tw[w].pc = "exited" => tw[w].open = 0
  /\ workers_running = Cardinality({ w \in LoopWorkers : Counted(w) })

(***************************************************************************)
(* The background cleanup thread (SpecSweepFair, SpecSweepLive).           *)
(***************************************************************************)
\* a pass of the cleanup thread that met a store error
ErrorPass == bg.pc = "loop" /\ bg'.pc # "loop" /\ bg'.last = "error"

\* C21: the cleanup thread keeps running whatever the pool does: its loop never
\* ends, a pass that meets a store error changes nothing and goes to its sleep
\* like any other, and passes are made again and again for ever.
C21_SweepKeepsRunning ==
  /\ [](cleanup_active /\ bg.pc \in {"loop", "sleep"})
  /\ [][ErrorPass => (bg'.pc = "sleep" /\ bg'.removed = 0 /\ idx' = idx)]_vars
  /\ []<>(bg.pc = "loop")
  /\ []<>(bg.pc = "sleep")

\* the thread is at a new pass after a pass that met a store error, the pool
\* stopped after it ran
C21_Witness ==
  /\ bg.pc = "loop"
  /\ bg.last = "error"
  /\ ~generation_active
  /\ starts > 0

====
